---------------------------- MODULE Spec2Model ----------------------------
(***************************************************************************)
(* A model of thara/go-websocket: the HTTP upgrade handshake performed by  *)
(* handler, the transfer of the connection by Hijack, and the decoding of  *)
(* one frame by parseFrame.                                                *)
(*                                                                         *)
(* The repository holds three successive versions of package main:        *)
(*   impl = "handshake"  src/main.go               (handshake only)        *)
(*   impl = "opcode"     src/unnamed/part_000:1-93 (hijack, one ReadByte)  *)
(*   impl = "frame"      src/unnamed/part_000:95-254 (hijack, parseFrame)  *)
(* Text is modelled as sequences of byte values where the code computes    *)
(* on it (the key, the accept credential, the wire) and as TLA+ strings    *)
(* where the code only compares or copies it.                              *)
(***************************************************************************)
EXTENDS Integers, Sequences, FiniteSets, TLC

(***************************************************************************)
(* Bytes and 32-bit words.  A uint32 is a pair <<high 16 bits, low 16      *)
(* bits>>, so that no intermediate value exceeds 2^31.                     *)
(***************************************************************************)
Min(a, b) == IF a < b THEN a ELSE b

RECURSIVE And16(_, _, _)
And16(x, y, n) ==
    IF n = 0 THEN 0
    ELSE (x % 2) * (y % 2) + 2 * And16(x \div 2, y \div 2, n - 1)

RECURSIVE Xor16(_, _, _)
Xor16(x, y, n) ==
    IF n = 0 THEN 0
    ELSE ((x + y) % 2) + 2 * Xor16(x \div 2, y \div 2, n - 1)

And32(a, b) == <<And16(a[1], b[1], 16), And16(a[2], b[2], 16)>>
Xor32(a, b) == <<Xor16(a[1], b[1], 16), Xor16(a[2], b[2], 16)>>
Or32(a, b)  == <<a[1] + b[1] - And16(a[1], b[1], 16),
                 a[2] + b[2] - And16(a[2], b[2], 16)>>
Not32(a)    == <<65535 - a[1], 65535 - a[2]>>

Add32(a, b) ==
    LET lo == a[2] + b[2]
        hi == a[1] + b[1] + (lo \div 65536)
    IN  <<hi % 65536, lo % 65536>>

\* bits.RotateLeft32(x, n), 0 <= n < 32
RotateLeft32(x, n) ==
    LET y == IF n >= 16 THEN <<x[2], x[1]>> ELSE x
        k == n % 16
    IN  IF k = 0 THEN y
        ELSE <<((y[1] * 2^k) % 65536) + (y[2] \div 2^(16 - k)),
               ((y[2] * 2^k) % 65536) + (y[1] \div 2^(16 - k))>>

(***************************************************************************)
(* crypto/sha1, as handler uses it: sha1.New(), io.WriteString(h, key),     *)
(* h.Sum(nil).  Sha1Pad appends 0x80, zero bytes up to 56 mod 64, and the   *)
(* message length in bits as 8 big-endian bytes; Sha1Block is one           *)
(* application of the compression function to a 64-byte block.              *)
(***************************************************************************)
Sha1Init == << <<26437, 8961>>, <<61389, 43913>>, <<39098, 56574>>,
               <<4146, 21622>>, <<50130, 57840>> >>

Sha1K(i) == IF i < 20 THEN <<23170, 31129>>
            ELSE IF i < 40 THEN <<28377, 60321>>
            ELSE IF i < 60 THEN <<36635, 48348>>
            ELSE <<51810, 49622>>

Sha1F(i, b, c, d) ==
    IF i < 20 THEN Or32(And32(b, c), And32(Not32(b), d))
    ELSE IF i < 40 THEN Xor32(Xor32(b, c), d)
    ELSE IF i < 60 THEN Or32(And32(Or32(b, c), d), And32(b, c))
    ELSE Xor32(Xor32(b, c), d)

Sha1Pad(m) ==
    LET n     == Len(m)
        zeros == (119 - (n % 64)) % 64
        bits  == n * 8
    IN  m \o <<128>> \o [i \in 1..zeros |-> 0]
          \o <<0, 0, 0, 0, 0, (bits \div 65536) % 256, (bits \div 256) % 256, bits % 256>>

\* the 16 big-endian words of block k (k = 0, 1, ...) of the padded message p
RECURSIVE Sha1Words(_, _, _)
Sha1Words(p, k, j) ==
    IF j = 16 THEN <<>>
    ELSE LET o == 64 * k + 4 * j
         IN  << <<p[o + 1] * 256 + p[o + 2], p[o + 3] * 256 + p[o + 4]>> >>
               \o Sha1Words(p, k, j + 1)

\* round i (0..79) of blockGeneric: st = <<a, b, c, d, e>>; w holds the 16
\* schedule words w[i-16..i-1] once i >= 16 (the code's circular w[i&0xf]),
\* and the block's words before
Sha1Round(i, st, w) ==
    LET wi == IF i < 16 THEN w[i + 1]
              ELSE RotateLeft32(
                     Xor32(Xor32(w[14], w[9]), Xor32(w[3], w[1])), 1)
        t  == Add32(Add32(Add32(RotateLeft32(st[1], 5), Sha1F(i, st[2], st[3], st[4])),
                          Add32(st[5], wi)), Sha1K(i))
    IN  << <<t, st[1], RotateLeft32(st[2], 30), st[3], st[4]>>,
           IF i < 16 THEN w ELSE Tail(w) \o <<wi>> >>

\* rounds lo..hi-1 applied in order to sw = <<state, schedule>>.  The first
\* half's result is bound (evaluated) before the second half is applied to it.
RECURSIVE Sha1Rounds(_, _, _)
Sha1Rounds(lo, hi, sw) ==
    IF hi = lo + 1 THEN Sha1Round(lo, sw[1], sw[2])
    ELSE LET mid == (lo + hi) \div 2
         IN  CHOOSE r \in {Sha1Rounds(mid, hi, half) :
                              half \in {Sha1Rounds(lo, mid, sw)}} : TRUE

Sha1Block(h, w) ==
    LET s == Sha1Rounds(0, 80, <<h, w>>)[1]
    IN  [j \in 1..5 |-> Add32(h[j], s[j])]

RECURSIVE Sha1Blocks(_, _, _)
Sha1Blocks(h, p, k) ==
    IF 64 * k >= Len(p) THEN h
    ELSE Sha1Blocks(Sha1Block(h, Sha1Words(p, k, 0)), p, k + 1)

\* the 20-byte digest of the byte sequence m
Sha1Sum(m) ==
    LET h == Sha1Blocks(Sha1Init, Sha1Pad(m), 0)
    IN  [i \in 1..20 |->
           LET wd == h[((i - 1) \div 4) + 1]
               r  == (i - 1) % 4
           IN  IF r = 0 THEN wd[1] \div 256
               ELSE IF r = 1 THEN wd[1] % 256
               ELSE IF r = 2 THEN wd[2] \div 256
               ELSE wd[2] % 256]

(***************************************************************************)
(* encoding/base64 StdEncoding.EncodeToString: the standard alphabet       *)
(* A-Z a-z 0-9 + /, with '=' padding.  Characters are ASCII codes.          *)
(***************************************************************************)
StdAlphabet(v) ==
    IF v < 26 THEN 65 + v
    ELSE IF v < 52 THEN 97 + (v - 26)
    ELSE IF v < 62 THEN 48 + (v - 52)
    ELSE IF v = 62 THEN 43
    ELSE 47

RECURSIVE EncodeToString(_)
EncodeToString(b) ==
    IF Len(b) = 0 THEN <<>>
    ELSE IF Len(b) = 1 THEN
        <<StdAlphabet(b[1] \div 4), StdAlphabet((b[1] % 4) * 16), 61, 61>>
    ELSE IF Len(b) = 2 THEN
        <<StdAlphabet(b[1] \div 4),
          StdAlphabet((b[1] % 4) * 16 + (b[2] \div 16)),
          StdAlphabet((b[2] % 16) * 4), 61>>
    ELSE
        <<StdAlphabet(b[1] \div 4),
          StdAlphabet((b[1] % 4) * 16 + (b[2] \div 16)),
          StdAlphabet((b[2] % 16) * 4 + (b[3] \div 64)),
          StdAlphabet(b[3] % 64)>>
          \o EncodeToString(SubSeq(b, 4, Len(b)))

\* "258EAFA5-E914-47DA-95CA-C5AB0DC85B11"
acceptMagicGUID ==
    <<50, 53, 56, 69, 65, 70, 65, 53, 45, 69, 57, 49, 52, 45, 52, 55, 68, 65,
      45, 57, 53, 67, 65, 45, 67, 53, 65, 66, 48, 68, 67, 56, 53, 66, 49, 49>>

\* a variant of AcceptOf that hashes the key without the GUID
AcceptOfKeyOnly(key) == EncodeToString(Sha1Sum(key))

\* key += acceptMagicGUID; sha1; base64
AcceptOf(key) == EncodeToString(Sha1Sum(key \o acceptMagicGUID))

(***************************************************************************)
(* The request, the response writer and the client's byte stream.          *)
(***************************************************************************)
\* "dGhlIHNhbXBsZSBub25jZQ==" (the sample nonce of RFC 6455)
SampleKey ==
    <<100, 71, 104, 108, 73, 72, 78, 104, 98, 88, 66, 115, 90, 83, 66, 117,
      98, 50, 53, 106, 90, 81, 61, 61>>

\* "x3JJHMbDL1EzLkh9GBhXDw=="
OtherKey ==
    <<120, 51, 74, 74, 72, 77, 98, 68, 76, 49, 69, 122, 76, 107, 104, 57,
      71, 66, 104, 88, 68, 119, 61, 61>>

\* r.Header.Get("Sec-WebSocket-Key") is "" when the header is absent
Keys == {SampleKey, OtherKey, <<>>}

UpgradeValues    == {"websocket", ""}
ConnectionValues == {"Upgrade", "keep-alive, Upgrade"}
ProtocolLists    == {<<>>, <<"chat">>, <<"superchat", "chat">>}

Requests ==
    [Upgrade : UpgradeValues, Connection : ConnectionValues,
     Protocols : ProtocolLists, Key : Keys]

Impls == {"handshake", "opcode", "frame"}

\* http.Header of the response: each name maps to its list of values
NoHeader ==
    [Upgrade |-> <<>>, Connection |-> <<>>, Accept |-> <<>>, Protocol |-> <<>>,
     ContentType |-> <<>>]

\* a fresh http.ResponseWriter: nothing written (status 0)
NewResponse ==
    [header |-> NoHeader, wroteHeader |-> FALSE, status |-> 0, body |-> ""]

\* w.WriteHeader(code): the first call fixes the status, a later one is ignored
WriteHeader(w, code) ==
    IF w.wroteHeader THEN w
    ELSE [w EXCEPT !.wroteHeader = TRUE, !.status = code]

\* whether a response with this status may carry a body (net/http)
BodyAllowed(status) ==
    ~(status \in 100..199 \/ status = 204 \/ status = 304)

\* w.Write(text): commits status 200 when no status was written yet
Write(w, text) ==
    LET w1 == WriteHeader(w, 200)
    IN  IF BodyAllowed(w1.status) THEN [w1 EXCEPT !.body = text] ELSE w1

\* http.Error(w, text, code)
HttpError(w, text, code) ==
    Write(WriteHeader([w EXCEPT !.header.ContentType = <<"text/plain; charset=utf-8">>],
                      code), text)

\* const ( opcodeContinuation ... opcodePong )
opcodeContinuation == 0
opcodeText         == 1
opcodeBinary       == 2
opcodeClose        == 8
opcodePing         == 9
opcodePong         == 10

(***************************************************************************)
(* uint64 lengths are four 16-bit limbs, most significant first.           *)
(***************************************************************************)
U64(n) == <<0, 0, n \div 65536, n % 65536>>

\* binary.BigEndian.Uint64 of 8 bytes
Uint64(b) ==
    <<b[1] * 256 + b[2], b[3] * 256 + b[4], b[5] * 256 + b[6], b[7] * 256 + b[8]>>

\* the value is below 2^31 and is handled as one integer
IsSmall(L) == L[1] = 0 /\ L[2] = 0 /\ L[3] < 32768
Val(L)     == L[3] * 65536 + L[4]

\* the zero frame{} and a decoded frame
ZeroFrame == [final |-> FALSE, opcode |-> 0, length |-> U64(0), payload |-> <<>>]

(***************************************************************************)
(* The buffered reader returned by Hijack.  buf holds the bytes the HTTP   *)
(* layer (or an earlier read) has buffered, sock the bytes the client has   *)
(* sent or will send that no read has returned yet.  A read of the          *)
(* connection returns some of them (at least one, at most max), or fails:   *)
(* the peer is gone, and what it had not delivered is lost.  The streams    *)
(* of the model are shorter than bufio's 4096-byte buffer.                  *)
(***************************************************************************)
\* a variant of HijackReader: a new reader on the connection, without the
\* bytes the HTTP layer had buffered
FreshReader(pre, rest) ==
    [buf |-> <<>>, sock |-> rest, eof |-> FALSE, lost |-> FALSE]

\* buf.Reader of the *bufio.ReadWriter Hijack returns: the pre-buffered bytes
\* first, then the connection
HijackReader(pre, rest) ==
    [buf |-> pre, sock |-> rest, eof |-> FALSE, lost |-> FALSE]

\* one Read of the connection into the empty buffer: the possible readers after it
ConnRead(rd, max) ==
    { [rd EXCEPT !.buf = SubSeq(rd.sock, 1, m),
                 !.sock = SubSeq(rd.sock, m + 1, Len(rd.sock))] :
        m \in 1..Min(Len(rd.sock), max) }
    \cup { [rd EXCEPT !.sock = <<>>, !.eof = TRUE,
                      !.lost = rd.lost \/ rd.sock # <<>>] }

\* bufio.Reader.ReadByte: the possible outcomes
ReadByte(rd) ==
    IF rd.buf # <<>>
    THEN { [err |-> FALSE, b |-> Head(rd.buf), rd |-> [rd EXCEPT !.buf = Tail(rd.buf)]] }
    ELSE { IF r1.buf = <<>>
           THEN [err |-> TRUE, b |-> 0, rd |-> r1]
           ELSE [err |-> FALSE, b |-> Head(r1.buf), rd |-> [r1 EXCEPT !.buf = Tail(r1.buf)]] :
             r1 \in ConnRead(rd, 4096) }

\* what Read copies out of a non-empty buffer into a slice of length want
CopyOut(rd, want) ==
    LET n == Min(want, Len(rd.buf))
    IN  [err |-> FALSE, n |-> n, data |-> SubSeq(rd.buf, 1, n),
         rd |-> [rd EXCEPT !.buf = SubSeq(rd.buf, n + 1, Len(rd.buf))]]

\* bufio.Reader.Read(p) with len(p) = want: the possible outcomes.  It returns
\* what is buffered, or the result of ONE read of the connection, never more.
Read(rd, want) ==
    IF want = 0 THEN { [err |-> FALSE, n |-> 0, data |-> <<>>, rd |-> rd] }
    ELSE IF rd.buf # <<>> THEN { CopyOut(rd, want) }
    ELSE { IF r1.buf = <<>>
           THEN [err |-> TRUE, n |-> 0, data |-> <<>>, rd |-> r1]
           ELSE CopyOut(r1, want) :
             r1 \in ConnRead(rd, IF want >= 4096 THEN want ELSE 4096) }

(***************************************************************************)
(* The client.  A stream is one frame in the RFC 6455 layout, possibly     *)
(* followed by a second one; a masked payload is XORed with the key.        *)
(***************************************************************************)
MaxPayload == 2

ClientMaskingKey == <<55, 250, 33, 61>>

\* the first n bytes of "ABC..."
PayloadText(n) == [i \in 1..n |-> 64 + i]

ClientMask(key, data) ==
    [i \in 1..Len(data) |-> Xor16(data[i], key[((i - 1) % 4) + 1], 8)]

ClientFrame(b0, masked, form, n) ==
    LET m  == IF masked THEN 128 ELSE 0
        b1 == IF form = "short" THEN n ELSE IF form = "ext16" THEN 126 ELSE 127
        ex == IF form = "short" THEN <<>>
              ELSE IF form = "ext16" THEN <<n \div 256, n % 256>>
              ELSE <<0, 0, 0, 0, 0, 0, n \div 256, n % 256>>
    IN  <<b0, m + b1>> \o ex
          \o (IF masked THEN ClientMaskingKey \o ClientMask(ClientMaskingKey, PayloadText(n))
              ELSE PayloadText(n))

\* a declared 64-bit length of 2^63 (high bit set) and one of 2^40
HugeLengths == { <<128, 0, 0, 0, 0, 0, 0, 0>>, <<0, 0, 1, 0, 0, 0, 0, 0>> }

\* FIN+Text frames in every length form, masked or not
TextFrames ==
    { ClientFrame(129, masked, form, n) :
        masked \in BOOLEAN, form \in {"short", "ext16", "ext64"}, n \in 0..MaxPayload }

\* masked frames of the other kinds: Text without FIN, Close, Ping
OtherFrames ==
    { ClientFrame(b0, TRUE, "short", n) : b0 \in {1, 136, 137}, n \in 0..MaxPayload }

HugeFrames ==
    { <<129, 255>> \o ext \o ClientMaskingKey \o PayloadText(1) : ext \in HugeLengths }

\* a FIN+Continuation frame that follows a first frame on the same stream
FollowUp == ClientFrame(128, TRUE, "short", 1)

ClientStreams ==
    TextFrames \cup OtherFrames \cup HugeFrames
      \cup { f \o FollowUp : f \in OtherFrames }

(***************************************************************************)
(* State.                                                                  *)
(***************************************************************************)
VARIABLES
    impl,       \* which version of package main serves the request
    r,          \* the request's headers
    canHijack,  \* whether w implements http.Hijacker
    w,          \* the response writer
    pc,         \* handler's position
    conn,       \* the connection: hijacked, how often Close was called, and how
                \* many bytes the HTTP layer had buffered when it was hijacked
    rd,         \* the buffered reader returned by Hijack
    stream,     \* every byte the client sends after its request, in order
    consumed,   \* the bytes the decoder has obtained from the reader, in order
    loc,        \* parseFrame's locals
    ret,        \* what parseFrame (or ReadByte) returned to handler
    log         \* handler's calls on w, r, the hijacker and the connection, in order

vars == <<impl, r, canHijack, w, pc, conn, rd, stream, consumed, loc, ret, log>>

NoLocals == [fin |-> 0, op |-> 0, mask |-> 0, length |-> U64(0), maskingKey |-> <<>>]

Init ==
    /\ impl \in Impls
    /\ r \in Requests
    /\ canHijack \in BOOLEAN
    /\ w = NewResponse
    /\ pc = "start"
    /\ conn = [hijacked |-> FALSE, closes |-> 0, buffered |-> 0]
    /\ rd = HijackReader(<<>>, <<>>)
    /\ stream = <<>>
    /\ consumed = <<>>
    /\ loc = NoLocals
    /\ ret = [kind |-> "none", f |-> ZeroFrame]
    /\ log = <<>>

(***************************************************************************)
(* handler: the handshake.                                                 *)
(***************************************************************************)
\* a variant of NotUpgrade that demands both signals (|| in place of &&)
NotUpgradeBoth(req) == req.Upgrade # "websocket" \/ req.Connection # "Upgrade"

\* r.Header.Get("Upgrade") != "websocket" && r.Header.Get("Connection") != "Upgrade"
NotUpgrade(req) == req.Upgrade # "websocket" /\ req.Connection # "Upgrade"

\* the 400 answer: w.WriteHeader in main.go, http.Error in the later versions
BadRequest(rw, version) ==
    IF version = "handshake" THEN WriteHeader(rw, 400)
    ELSE HttpError(rw, "Bad Request\n", 400)

CheckUpgrade ==
    /\ pc = "start"
    /\ IF NotUpgrade(r)
       THEN /\ w' = BadRequest(w, impl)
            /\ log' = log \o <<"r.Header.Get",
                                IF impl = "handshake" THEN "w.WriteHeader" ELSE "http.Error">>
            /\ pc' = "returned"
       ELSE /\ w' = w
            /\ log' = log \o <<"r.Header.Get">>
            /\ pc' = "protocols"
    /\ UNCHANGED <<impl, r, canHijack, conn, rd, stream, consumed, loc, ret>>

\* subprotocols := r.Header.Values("Sec-WebSocket-Protocol"); if 0 < len(...) {...}
SelectSubprotocol ==
    /\ pc = "protocols"
    /\ IF 0 < Len(r.Protocols)
       THEN /\ w' = [w EXCEPT !.header.Protocol = <<r.Protocols[1]>>]
            /\ log' = log \o <<"r.Header.Values", "w.Header.Set">>
            /\ pc' = "returned"
       ELSE /\ w' = w
            /\ log' = log \o <<"r.Header.Values">>
            /\ pc' = IF impl = "handshake" THEN "accept" ELSE "hijacker"
    /\ UNCHANGED <<impl, r, canHijack, conn, rd, stream, consumed, loc, ret>>

\* a variant of AssertHijacker placed after the accept headers are set
AssertHijackerAfterHeaders ==
    /\ pc = "hijacker"
    /\ IF ~canHijack
       THEN /\ w' = HttpError([w EXCEPT !.header.Upgrade = <<"websocket">>,
                                        !.header.Connection = <<"Upgrade">>,
                                        !.header.Accept = <<AcceptOf(r.Key)>>],
                              "Not Implemented\n", 501)
            /\ log' = log \o <<"r.Header.Get", "w.Header.Set", "http.Error">>
            /\ pc' = "returned"
       ELSE /\ w' = w
            /\ log' = log
            /\ pc' = "accept"
    /\ UNCHANGED <<impl, r, canHijack, conn, rd, stream, consumed, loc, ret>>

\* hj, ok := w.(http.Hijacker); if !ok { http.Error(501); return }
AssertHijacker ==
    /\ pc = "hijacker"
    /\ IF ~canHijack
       THEN /\ w' = HttpError(w, "Not Implemented\n", 501)
            /\ log' = log \o <<"http.Error">>
            /\ pc' = "returned"
       ELSE /\ w' = w
            /\ log' = log
            /\ pc' = "accept"
    /\ UNCHANGED <<impl, r, canHijack, conn, rd, stream, consumed, loc, ret>>

\* key := r.Header.Get("Sec-WebSocket-Key"); ...; the three w.Header().Set calls
SetAcceptHeaders ==
    /\ pc = "accept"
    /\ w' = [w EXCEPT !.header.Upgrade = <<"websocket">>,
                      !.header.Connection = <<"Upgrade">>,
                      !.header.Accept = <<AcceptOf(r.Key)>>]
    /\ log' = log \o <<"r.Header.Get", "w.Header.Set">>
    /\ pc' = "writeHeader"
    /\ UNCHANGED <<impl, r, canHijack, conn, rd, stream, consumed, loc, ret>>

\* a variant of WriteSwitchingProtocols that goes on without writing the status
SkipSwitchingProtocols ==
    /\ pc = "writeHeader"
    /\ pc' = IF impl = "handshake" THEN "returned" ELSE "hijack"
    /\ UNCHANGED <<impl, r, canHijack, w, conn, rd, stream, consumed, loc, ret, log>>

\* w.WriteHeader(http.StatusSwitchingProtocols); main.go returns after it
WriteSwitchingProtocols ==
    /\ pc = "writeHeader"
    /\ w' = WriteHeader(w, 101)
    /\ log' = log \o <<"w.WriteHeader">>
    /\ pc' = IF impl = "handshake" THEN "returned" ELSE "hijack"
    /\ UNCHANGED <<impl, r, canHijack, conn, rd, stream, consumed, loc, ret>>

(***************************************************************************)
(* handler: the hijack.  Hijack fails or hands over the connection and     *)
(* its buffered reader, which already holds the first k bytes the client    *)
(* sent after its request.                                                  *)
(***************************************************************************)
\* the first read after a successful Hijack
AfterHijack(version) == IF version = "frame" THEN "byte0" ELSE "readByte"

HijackFails ==
    /\ pc = "hijack"
    /\ w' = HttpError(w, "Internal Server Error\n", 500)
    /\ log' = log \o <<"hj.Hijack:err", "http.Error">>
    /\ pc' = "returned"
    /\ UNCHANGED <<impl, r, canHijack, conn, rd, stream, consumed, loc, ret>>

\* a variant of HijackSucceeds that writes the status after the hijack
HijackThenWriteHeader ==
    /\ pc = "hijack"
    /\ \E s \in ClientStreams : \E k \in 0..Len(s) :
          /\ stream' = s
          /\ rd' = HijackReader(SubSeq(s, 1, k), SubSeq(s, k + 1, Len(s)))
          /\ conn' = [conn EXCEPT !.hijacked = TRUE, !.buffered = k]
    /\ w' = WriteHeader(w, 101)
    /\ log' = log \o <<"hj.Hijack:ok", "w.WriteHeader">>
    /\ pc' = AfterHijack(impl)
    /\ UNCHANGED <<impl, r, canHijack, consumed, loc, ret>>

HijackSucceeds ==
    /\ pc = "hijack"
    /\ \E s \in ClientStreams : \E k \in 0..Len(s) :
          /\ stream' = s
          /\ rd' = HijackReader(SubSeq(s, 1, k), SubSeq(s, k + 1, Len(s)))
          /\ conn' = [conn EXCEPT !.hijacked = TRUE, !.buffered = k]
    /\ log' = log \o <<"hj.Hijack:ok">>
    /\ pc' = AfterHijack(impl)
    /\ UNCHANGED <<impl, r, canHijack, w, consumed, loc, ret>>

(***************************************************************************)
(* parseFrame, one action per read.  A failed read returns frame{} and an  *)
(* error; handler's deferred conn.Close() then runs.                        *)
(***************************************************************************)
ReadFailed == [kind |-> "error", f |-> ZeroFrame]

\* after byte 1: the extended length, the masking key or the payload
AfterLength(l) ==
    IF Val(l.length) = 126 \/ Val(l.length) = 127 THEN "extlen"
    ELSE IF l.mask = 128 THEN "maskingKey"
    ELSE "payload"

\* b, err := buf.ReadByte(); fin := b & 0x80; op := opcode(b & 0x0F)
ParseByte0 ==
    /\ pc = "byte0"
    /\ \E o \in ReadByte(rd) :
          /\ rd' = o.rd
          /\ IF o.err
             THEN /\ ret' = ReadFailed
                  /\ pc' = "deferred"
                  /\ UNCHANGED <<loc, consumed>>
             ELSE /\ loc' = [loc EXCEPT !.fin = (o.b \div 128) * 128, !.op = o.b % 16]
                  /\ consumed' = Append(consumed, o.b)
                  /\ pc' = "byte1"
                  /\ ret' = ret
    /\ log' = log \o <<"parseFrame">>
    /\ UNCHANGED <<impl, r, canHijack, w, conn, stream>>

\* b, err = buf.ReadByte(); mask := b & 0x80; length := uint64(b & 0x7F)
ParseByte1 ==
    /\ pc = "byte1"
    /\ \E o \in ReadByte(rd) :
          /\ rd' = o.rd
          /\ IF o.err
             THEN /\ ret' = ReadFailed
                  /\ pc' = "deferred"
                  /\ UNCHANGED <<loc, consumed>>
             ELSE /\ loc' = [loc EXCEPT !.mask = (o.b \div 128) * 128,
                                        !.length = U64(o.b % 128)]
                  /\ consumed' = Append(consumed, o.b)
                  /\ pc' = AfterLength(loc')
                  /\ ret' = ret
    /\ UNCHANGED <<impl, r, canHijack, w, conn, stream, log>>

\* what the extended length decodes to: "panic" or a length.  After base
\* length 126 the code calls binary.BigEndian.Uint64 on a 2-byte array, which
\* indexes b[7]: index out of range.
ExtendedLength(base, data) ==
    IF base = 126 THEN "panic" ELSE Uint64(data)

\* if length == 126 { buf.Read(b[:2]) ... } else if length == 127 { buf.Read(b[:8]) ... }
ParseExtendedLength ==
    /\ pc = "extlen"
    /\ LET want == IF Val(loc.length) = 126 THEN 2 ELSE 8
       IN  \E o \in Read(rd, want) :
             /\ rd' = o.rd
             /\ consumed' = consumed \o o.data
             /\ IF o.err \/ o.n # want
                THEN /\ ret' = ReadFailed
                     /\ pc' = "deferred"
                     /\ loc' = loc
                ELSE IF ExtendedLength(Val(loc.length), o.data) = "panic"
                THEN /\ ret' = [kind |-> "panic", f |-> ZeroFrame]
                     /\ pc' = "deferred"
                     /\ loc' = loc
                ELSE /\ loc' = [loc EXCEPT !.length = ExtendedLength(Val(loc.length), o.data)]
                     /\ pc' = IF loc.mask = 128 THEN "maskingKey" ELSE "payload"
                     /\ ret' = ret
    /\ UNCHANGED <<impl, r, canHijack, w, conn, stream, log>>

\* if mask == 0x80 { maskingKey = make([]byte, 4); buf.Read(maskingKey) ... }
ParseMaskingKey ==
    /\ pc = "maskingKey"
    /\ \E o \in Read(rd, 4) :
          /\ rd' = o.rd
          /\ consumed' = consumed \o o.data
          /\ IF o.err \/ o.n # 4
             THEN /\ ret' = ReadFailed
                  /\ pc' = "deferred"
                  /\ loc' = loc
             ELSE /\ loc' = [loc EXCEPT !.maskingKey = o.data]
                  /\ pc' = "payload"
                  /\ ret' = ret
    /\ UNCHANGED <<impl, r, canHijack, w, conn, stream, log>>

\* make([]byte, length): the outcomes.  A length that is negative as an int
\* (high bit set) or above the runtime's 2^48 limit panics; a length of 4 GiB or
\* more may be granted or may end the process with "out of memory".
MakeSlice(L) ==
    IF L[1] > 1 \/ (L[1] = 1 /\ (L[2] # 0 \/ L[3] # 0 \/ L[4] # 0)) THEN {"panic"}
    ELSE IF L[1] # 0 \/ L[2] # 0 THEN {"ok", "fatal"}
    ELSE {"ok"}

\* len(payload) as Read sees it; 2^31-1 stands for every length that large,
\* which is more than any stream of the model holds
WantOf(L) == IF IsSmall(L) THEN Val(L) ELSE 2147483647

\* a variant of PayloadOf: the masking key read into the same slice, ahead of
\* the payload
PayloadWithKey(l, wire) == l.maskingKey \o wire

\* the payload of the returned frame, from the bytes read off the wire
PayloadOf(l, wire) == wire

\* f := frame{final: fin == 0x80, opcode: op, length: length, payload: payload}
FrameOf(l, wire) ==
    [final |-> l.fin = 128, opcode |-> l.op, length |-> l.length,
     payload |-> PayloadOf(l, wire)]

\* payload := make([]byte, length); buf.Read(payload) ...; return f, nil
ParsePayload ==
    /\ pc = "payload"
    /\ \E a \in MakeSlice(loc.length) :
         IF a = "panic"
         THEN /\ ret' = [kind |-> "panic", f |-> ZeroFrame]
              /\ pc' = "deferred"
              /\ UNCHANGED <<rd, consumed>>
         ELSE IF a = "fatal"
         THEN /\ ret' = [kind |-> "fatal", f |-> ZeroFrame]
              /\ pc' = "crashed"
              /\ UNCHANGED <<rd, consumed>>
         ELSE \E o \in Read(rd, WantOf(loc.length)) :
                /\ rd' = o.rd
                /\ consumed' = consumed \o o.data
                /\ pc' = "deferred"
                /\ ret' = IF o.err \/ o.n # WantOf(loc.length)
                          THEN ReadFailed
                          ELSE [kind |-> "frame", f |-> FrameOf(loc, o.data)]
    /\ UNCHANGED <<impl, r, canHijack, w, conn, stream, loc, log>>

\* part_000:74-81: b, err := buf.ReadByte(); op := opcode(b & 0x0F)
ReadOpcode ==
    /\ pc = "readByte"
    /\ \E o \in ReadByte(rd) :
          /\ rd' = o.rd
          /\ IF o.err
             THEN /\ ret' = ReadFailed
                  /\ consumed' = consumed
             ELSE /\ ret' = [kind |-> "opcode", f |-> [ZeroFrame EXCEPT !.opcode = o.b % 16]]
                  /\ consumed' = Append(consumed, o.b)
    /\ pc' = "deferred"
    /\ log' = log \o <<"buf.ReadByte">>
    /\ UNCHANGED <<impl, r, canHijack, w, conn, stream, loc>>

\* conn.Close()
CloseNow(c) == [c EXCEPT !.closes = c.closes + 1]

\* a variant of DeferredClose: conn.Close() as the last statement instead of
\* a defer, so that a panic skips it
CloseOnReturnOnly ==
    /\ pc = "deferred"
    /\ conn' = IF ret.kind = "panic" THEN conn ELSE CloseNow(conn)
    /\ log' = IF ret.kind = "panic" THEN log ELSE log \o <<"conn.Close">>
    /\ pc' = "returned"
    /\ UNCHANGED <<impl, r, canHijack, w, rd, stream, consumed, loc, ret>>

\* defer conn.Close(): runs when handler returns and when parseFrame panics
DeferredClose ==
    /\ pc = "deferred"
    /\ conn' = CloseNow(conn)
    /\ log' = log \o <<"conn.Close">>
    /\ pc' = "returned"
    /\ UNCHANGED <<impl, r, canHijack, w, rd, stream, consumed, loc, ret>>

\* net/http once handler has returned: a response that was not hijacked and
\* has no status yet is sent with status 200
ServerFinish ==
    /\ pc = "returned"
    /\ w' = IF conn.hijacked THEN w ELSE WriteHeader(w, 200)
    /\ pc' = "done"
    /\ UNCHANGED <<impl, r, canHijack, conn, rd, stream, consumed, loc, ret, log>>

Next ==
    \/ CheckUpgrade
    \/ SelectSubprotocol
    \/ AssertHijacker
    \/ SetAcceptHeaders
    \/ WriteSwitchingProtocols
    \/ HijackFails
    \/ HijackSucceeds
    \/ ParseByte0
    \/ ParseByte1
    \/ ParseExtendedLength
    \/ ParseMaskingKey
    \/ ParsePayload
    \/ ReadOpcode
    \/ DeferredClose
    \/ ServerFinish

Spec == Init /\ [][Next]_vars

(***************************************************************************)
(* The claims.                                                             *)
(***************************************************************************)
IsPrefix(a, b) == Len(a) <= Len(b) /\ SubSeq(b, 1, Len(a)) = a

Logged(e) == \E i \in DOMAIN log : log[i] = e

\* the request carries at least one of the two upgrade signals
HasUpgradeSignal == r.Upgrade = "websocket" \/ r.Connection = "Upgrade"

NoHandshakeHeader ==
    w.header.Upgrade = <<>> /\ w.header.Connection = <<>> /\ w.header.Accept = <<>>

HandshakeWritten ==
    /\ w.wroteHeader /\ w.status = 101
    /\ w.header.Upgrade = <<"websocket">>
    /\ w.header.Connection = <<"Upgrade">>
    /\ Len(w.header.Accept) = 1

\* C1: handler answers 400 exactly when the request carries neither
\* Upgrade: websocket nor Connection: Upgrade; on the 400 path the connection
\* is not hijacked and no Upgrade, Connection or Sec-WebSocket-Accept response
\* header is set.
C1_BadRequestIffNoSignal ==
    /\ pc # "start" => (w.status = 400 <=> ~HasUpgradeSignal)
    /\ w.status = 400 => (~conn.hijacked /\ NoHandshakeHeader /\ consumed = <<>>)

C1_Witness ==
    pc = "done" /\ w.status = 400 /\ r.Connection = "keep-alive, Upgrade" /\ r.Upgrade = ""

\* C2: a request that passes the upgrade check and names subprotocols is
\* accepted: status 101 with Upgrade, Connection, Sec-WebSocket-Accept and the
\* first requested protocol, and the handler goes on to hijack the connection
\* as it does without subprotocols.
C2_SubprotocolAccepted ==
    (pc = "done" /\ HasUpgradeSignal /\ 0 < Len(r.Protocols)) =>
        /\ HandshakeWritten
        /\ w.header.Protocol = <<r.Protocols[1]>>
        /\ (impl # "handshake" /\ canHijack) =>
              (Logged("hj.Hijack:ok") \/ Logged("hj.Hijack:err"))

\* the accept credentials of the three keys, computed outside the model
\* (RFC 6455 section 1.3 for the first): "s3pPLMBiTxaQ9kYGzzhZRbK+xOo=",
\* "HSmrc0sMlYUkAGmm5OPpG2HaGWk=", "Kfh9QIsMVZcl6xEPYxPHzW8SZ8w="
KnownAccept(key) ==
    IF key = SampleKey THEN
        <<115, 51, 112, 80, 76, 77, 66, 105, 84, 120, 97, 81, 57, 107, 89, 71,
          122, 122, 104, 90, 82, 98, 75, 43, 120, 79, 111, 61>>
    ELSE IF key = OtherKey THEN
        <<72, 83, 109, 114, 99, 48, 115, 77, 108, 89, 85, 107, 65, 71, 109, 109,
          53, 79, 80, 112, 71, 50, 72, 97, 71, 87, 107, 61>>
    ELSE
        <<75, 102, 104, 57, 81, 73, 115, 77, 86, 90, 99, 108, 54, 120, 69, 80,
          89, 120, 80, 72, 122, 87, 56, 83, 90, 56, 119, 61>>

\* C3: for every accepted request the Sec-WebSocket-Accept header is
\* base64(SHA-1(key + GUID)), whatever the other inputs are; the sample key
\* yields "s3pPLMBiTxaQ9kYGzzhZRbK+xOo=".
C3_AcceptIsRfcDerivation ==
    (w.status = 101 \/ w.header.Accept # <<>>) =>
        w.header.Accept = <<KnownAccept(r.Key)>>

C3_Witness ==
    /\ pc = "done" /\ w.status = 101 /\ r.Key = SampleKey
    /\ w.header.Accept =
         << <<115, 51, 112, 80, 76, 77, 66, 105, 84, 120, 97, 81, 57, 107, 89, 71,
              122, 122, 104, 90, 82, 98, 75, 43, 120, 79, 111, 61>> >>

\* C4: whenever Hijack is called, status 101 and the Upgrade, Connection and
\* Sec-WebSocket-Accept headers have been written before; no byte of the frame
\* stream is read before Hijack has succeeded.
C4_HandshakeBeforeHijack ==
    /\ (pc = "hijack" \/ conn.hijacked) => HandshakeWritten
    /\ \A i \in DOMAIN log :
          log[i] \in {"hj.Hijack:ok", "hj.Hijack:err"} =>
             \E j, k \in 1..(i - 1) :
                j < k /\ log[j] = "w.Header.Set" /\ log[k] = "w.WriteHeader"
    /\ \A i \in DOMAIN log :
          log[i] \in {"parseFrame", "buf.ReadByte"} =>
             \E j \in 1..(i - 1) : log[j] = "hj.Hijack:ok"
    /\ (consumed # <<>> \/ ret.kind # "none"
          \/ pc \in {"byte0", "byte1", "extlen", "maskingKey", "payload", "readByte"})
       => conn.hijacked

C4_Witness ==
    pc = "done" /\ conn.hijacked /\ ret.kind = "frame" /\ impl = "frame"

\* C5: once Hijack has succeeded the connection is closed exactly once by the
\* time handler has finished, whether the frame was decoded, the read failed or
\* parseFrame panicked; it is never closed twice.
C5_ClosedExactlyOnce ==
    /\ conn.closes <= 1
    /\ conn.closes = 1 => conn.hijacked
    /\ (conn.hijacked /\ pc \in {"returned", "done"}) => conn.closes = 1

C5_Witness ==
    pc = "done" /\ ret.kind = "panic" /\ conn.closes = 1

\* C6: when Hijack returns an error the client receives status 500 with the
\* status text as body, and no 101 has been committed.
C6_HijackErrorIs500 ==
    (pc = "done" /\ Logged("hj.Hijack:err")) =>
        (w.status = 500 /\ w.body = "Internal Server Error\n")

\* C7: in the versions that hijack, a request that passes the upgrade check
\* without subprotocol on a writer that is no Hijacker is answered 501: no
\* Upgrade, Connection or Sec-WebSocket-Accept header, no 101, no frame read.
C7_NotImplemented ==
    (/\ impl # "handshake"
     /\ pc \in {"returned", "done"}
     /\ HasUpgradeSignal /\ r.Protocols = <<>> /\ ~canHijack) =>
        /\ w.status = 501 /\ w.body = "Not Implemented\n"
        /\ NoHandshakeHeader
        /\ ~Logged("w.WriteHeader")
        /\ ~conn.hijacked /\ consumed = <<>> /\ ret.kind = "none"
        /\ ~Logged("parseFrame") /\ ~Logged("buf.ReadByte")

C7_Witness ==
    pc = "done" /\ w.status = 501 /\ impl = "frame" /\ ~canHijack

\* C8: the decoder consumes the client's bytes in stream order, the bytes the
\* HTTP layer had buffered first: none is skipped or reordered, and the
\* connection is not read while pre-buffered bytes remain.
C8_BufferedBytesFirst ==
    conn.hijacked =>
        /\ IsPrefix(consumed, stream)
        /\ ~rd.lost => consumed \o rd.buf \o rd.sock = stream
        /\ Len(consumed) < conn.buffered =>
              (~rd.eof /\ rd.sock = SubSeq(stream, conn.buffered + 1, Len(stream)))

C8_Witness ==
    /\ pc = "done" /\ ret.kind = "frame"
    /\ 0 < conn.buffered /\ conn.buffered < Len(stream)
    /\ consumed = stream

\* C9: after a successful Hijack handler calls nothing on the response writer
\* or the request: what follows are reads of the buffered reader and the
\* closing of the connection.
C9_NoHttpAfterHijack ==
    \A i, j \in DOMAIN log :
        (i < j /\ log[i] = "hj.Hijack:ok") =>
            log[j] \in {"parseFrame", "buf.ReadByte", "conn.Close"}

C9_Witness ==
    pc = "done" /\ Logged("hj.Hijack:ok") /\ Logged("conn.Close") /\ ret.kind = "error"

\* C10: the payload of a frame decoded with the MASK bit set is the wire
\* payload XORed with the masking key: byte i with key byte i mod 4.
C10_PayloadUnmasked ==
    (ret.kind = "frame" /\ loc.mask = 128) =>
        LET n    == Len(ret.f.payload)
            wire == SubSeq(consumed, Len(consumed) - n + 1, Len(consumed))
        IN  /\ Len(loc.maskingKey) = 4
            /\ \A i \in 1..n :
                  ret.f.payload[i] = Xor16(wire[i], loc.maskingKey[((i - 1) % 4) + 1], 8)

(***************************************************************************)
(* The frame a byte sequence s starts with, read off the wire layout of    *)
(* RFC 6455 (independently of parseFrame's locals).                         *)
(***************************************************************************)
WireMasked(s) == s[2] >= 128

WireBase(s) == s[2] % 128

\* the bytes of the extended length field
WireExtLen(s) == IF WireBase(s) = 126 THEN 2 ELSE IF WireBase(s) = 127 THEN 8 ELSE 0

\* the bytes before the payload: 2, the extended length, the masking key
WireHeaderLen(s) == 2 + WireExtLen(s) + (IF WireMasked(s) THEN 4 ELSE 0)

\* the declared payload length, as a 64-bit value in 16-bit limbs
WireLength(s) ==
    IF WireBase(s) = 126 THEN <<0, 0, 0, s[3] * 256 + s[4]>>
    ELSE IF WireBase(s) = 127 THEN Uint64(SubSeq(s, 3, 10))
    ELSE U64(WireBase(s))

\* s holds every byte of its first frame
WireComplete(s) ==
    /\ IsSmall(WireLength(s))
    /\ Len(s) >= WireHeaderLen(s) + Val(WireLength(s))

\* parseFrame has ended: by a return, a panic or the end of the process
ParseFrameEnded == impl = "frame" /\ ret.kind \in {"frame", "error", "panic", "fatal"}

\* handler has run its deferred conn.Close()
HandlerReturned == pc \in {"returned", "done"}

\* C11: a frame whose MASK bit is clear is never returned as a decoded
\* frame: parseFrame returns an error and the zero frame for it.
C11_UnmaskedRejected ==
    (ParseFrameEnded /\ Len(consumed) >= 2 /\ ~WireMasked(consumed)) =>
        ret = ReadFailed

\* C12: unless a read fails, parseFrame on a complete frame returns a frame
\* whose length is the base length (0..125), the big-endian value of the next
\* 2 bytes (base length 126) or of the next 8 bytes (base length 127).
C12_LengthDecoded ==
    (ParseFrameEnded /\ WireComplete(stream) /\ ret.kind # "error") =>
        /\ ret.kind = "frame"
        /\ ret.f.length = WireLength(stream)

\* the stream ended before the bytes of its first frame were all there
StreamEndedEarly == rd.eof \/ ~WireComplete(stream)

\* C13: when the stream ends before a decode step has its bytes, parseFrame
\* returns an error with the zero frame, and handler then closes the
\* connection.
C13_TruncatedIsError ==
    (ParseFrameEnded /\ StreamEndedEarly) =>
        /\ ret = ReadFailed
        /\ HandlerReturned => conn.closes = 1

\* handler has decoded a frame of opcode op and has returned
Handled(op) == HandlerReturned /\ ret.kind = "frame" /\ ret.f.opcode = op

\* handler wrote to the connection before it closed it; log holds every call
\* handler makes on the connection
WroteBeforeClose ==
    \E i, j \in DOMAIN log : i < j /\ log[i] = "conn.Write" /\ log[j] = "conn.Close"

\* C14: after a decoded Close frame the server sends a Close frame on the
\* connection before it closes the connection, and reads no further frame.
C14_CloseEchoed ==
    Handled(opcodeClose) =>
        /\ WroteBeforeClose
        /\ conn.closes = 1
        /\ Len(consumed) = WireHeaderLen(stream) + Val(WireLength(stream))

\* C15: after a decoded Ping frame the server has replied on the connection
\* (a Pong with the Ping's payload).
C15_PingAnswered ==
    Handled(opcodePing) => Logged("conn.Write")

\* the first frame of the stream, and what follows it
FirstFrameLen(s) == WireHeaderLen(s) + Val(WireLength(s))

AfterFirstFrame(s) == SubSeq(s, FirstFrameLen(s) + 1, Len(s))

\* the stream is a message in two fragments: a Text frame without FIN and a
\* Continuation frame with FIN
TwoFragments ==
    /\ WireComplete(stream)
    /\ stream[1] = opcodeText
    /\ AfterFirstFrame(stream) # <<>>
    /\ AfterFirstFrame(stream)[1] = 128 + opcodeContinuation

\* C16: a message sent in fragments is delivered as one final message whose
\* payload has the bytes of all fragments, in order.  What handler delivers
\* is the frame it prints.
C16_FragmentsReassembled ==
    (HandlerReturned /\ ret.kind = "frame" /\ TwoFragments) =>
        /\ ret.f.final
        /\ consumed = stream
        /\ Len(ret.f.payload) =
              Val(WireLength(stream)) + Val(WireLength(AfterFirstFrame(stream)))

\* C17: a frame parseFrame returns has length = len(payload), final = bit 7
\* of byte 0, opcode = the low 4 bits of byte 0, and its payload is what
\* follows the header, the extended length and the masking key on the wire.
C17_FrameFields ==
    ret.kind = "frame" =>
        /\ IsSmall(ret.f.length)
        /\ Val(ret.f.length) = Len(ret.f.payload)
        /\ ret.f.final = (consumed[1] >= 128)
        /\ ret.f.opcode = consumed[1] % 16
        /\ ret.f.payload =
              SubSeq(consumed, WireHeaderLen(consumed) + 1, Len(consumed))

C17_Witness ==
    /\ ret.kind = "frame"
    /\ WireMasked(consumed) /\ WireBase(consumed) = 127
    /\ ret.f.final /\ ret.f.opcode = opcodeText
    /\ Len(ret.f.payload) = 2
    /\ Len(loc.maskingKey) = 4

\* C18: when every byte of a complete frame is delivered, however the bytes
\* are split over the reads of the connection, parseFrame returns no error.
C18_AnySegmentation ==
    (ParseFrameEnded /\ WireComplete(stream) /\ ~rd.lost /\ ~rd.eof) =>
        ret.kind # "error"

\* C19: the server does not close the connection after a decoded frame that
\* is not a Close frame.
C19_OpenAfterDataFrame ==
    (ret.kind = "frame" /\ ret.f.opcode # opcodeClose) => conn.closes = 0

\* C20: parseFrame ends by returning a frame or an error: it never panics
\* and never ends the process.
C20_NoAbnormalEnd ==
    ret.kind \notin {"panic", "fatal"}

=============================================================================
